---- MODULE Spec2Model ----
(***************************************************************************)
(* esp-alarm: the HTTP listener of alarm/HTTP.py and the buzzer pattern of *)
(* alarm/utils.py.  Text (bytes received, decoded strings, header lines)   *)
(* is a sequence of one-character strings over ASCII.                      *)
(***************************************************************************)
EXTENDS Integers, Sequences, FiniteSets, TLC

VARIABLES
    pc,            \* position of the single thread of control
    exc,           \* the exception that ended listen(), "" while running
    nConn,         \* number of connections accept() has returned so far
    openConns,     \* ids of accepted connections not yet closed
    conn,          \* self._conn: id, open flag, what was written to it
    pending,       \* bytes the peer of self._conn has still to deliver
    request,       \* listen(): request
    parsed,        \* headers/content were assigned from this connection's request
    headers,       \* listen(): headers (list of header lines)
    content,       \* listen(): content
    content_type,  \* listen(): content_type (unbound until first assigned)
    data,          \* listen(): data (unbound until first assigned)
    buzzer,        \* level of the buzzer pin
    frame,         \* alarm(): its arguments, elapsed ticks and caller
    buzzed,        \* alarm() calls made while handling self._conn
    file,          \* the lines of settings.txt, as readlines() gives them
    settings,      \* readSettings(): settings
    vi             \* readSettings(): position of i in settings_model

vars == <<pc, exc, nConn, openConns, conn, pending, request, parsed, headers,
          content, content_type, data, buzzer, frame, buzzed, file, settings,
          vi>>

\* what HTTP.py leaves alone
settingsVars == <<file, settings, vi>>

\* what readSettings() leaves alone
httpVars == <<nConn, openConns, conn, pending, request, parsed, headers,
              content, content_type, data, buzzer, frame, buzzed>>

----------------------------------------------------------------------------
(* Bounds of the model *)

\* connections accepted in one run of listen()
MaxConns == 3

----------------------------------------------------------------------------
(* Text *)

CRLF == <<"\r", "\n">>

BlankLine == CRLF \o CRLF

\* s[0:n]
Take(s, n) == SubSeq(s, 1, IF n < Len(s) THEN n ELSE Len(s))

\* s[n:]
Drop(s, n) == SubSeq(s, n + 1, Len(s))

\* sub occurs in s at (1-based) position i
OccursAt(s, sub, i) ==
    /\ i >= 1
    /\ i + Len(sub) - 1 <= Len(s)
    /\ SubSeq(s, i, i + Len(sub) - 1) = sub

\* position of the first occurrence of sub in s, 0 if there is none
Find(s, sub) ==
    LET hits == {i \in 1..Len(s) : OccursAt(s, sub, i)}
    IN  IF hits = {} THEN 0 ELSE CHOOSE i \in hits : \A j \in hits : i <= j

\* sub in s
Contains(s, sub) == Find(s, sub) # 0

\* s.split(sep): the pieces between the non-overlapping occurrences of sep,
\* scanned left to right
RECURSIVE Split(_, _)
Split(s, sep) ==
    LET i == Find(s, sep)
    IN  IF i = 0
        THEN <<s>>
        ELSE <<SubSeq(s, 1, i - 1)>> \o Split(Drop(s, i + Len(sep) - 1), sep)

\* sep.join(parts)
RECURSIVE Join(_, _)
Join(parts, sep) ==
    IF Len(parts) = 0 THEN <<>>
    ELSE IF Len(parts) = 1 THEN parts[1]
    ELSE parts[1] \o sep \o Join(Tail(parts), sep)

----------------------------------------------------------------------------
(* The requests a peer may send *)

\* "POST"
POST ==
    <<"P", "O", "S", "T">>

\* " / HTTP/1.1", the rest of a request line
Target ==
    <<" ", "/", " ", "H", "T", "T", "P", "/", "1", ".", "1">>

LinePost == POST \o Target

LineGet == <<"G", "E", "T">> \o Target

\* a method that merely starts with the letters POST
LinePostX == POST \o <<"X">> \o Target

RequestLines == {LinePost, LineGet, LinePostX}

\* "Content-Type: "
ContentTypeKey ==
    <<"C", "o", "n", "t", "e", "n", "t", "-", "T", "y", "p", "e", ":", " ">>

\* "application/json"
ApplicationJson ==
    <<"a", "p", "p", "l", "i", "c", "a", "t", "i", "o", "n", "/", "j", "s",
      "o", "n">>

\* "text/plain"
TextPlain ==
    <<"t", "e", "x", "t", "/", "p", "l", "a", "i", "n">>

HdrJson == ContentTypeKey \o ApplicationJson

HdrText == ContentTypeKey \o TextPlain

\* "Content-Type: application/json; charset=utf-8"
HdrJsonCharset ==
    HdrJson \o <<";", " ", "c", "h", "a", "r", "s", "e", "t", "=", "u", "t",
                 "f", "-", "8">>

\* the header lines that follow the request line: none, one Content-Type
\* line, or two of which the first is the one found
HeaderBlocks == {<<>>, <<HdrJson>>, <<HdrText>>, <<HdrText, HdrJson>>}

\* {"state":"alerting"}
BodyAlerting ==
    <<"{", "\"", "s", "t", "a", "t", "e", "\"", ":", "\"", "a", "l", "e",
      "r", "t", "i", "n", "g", "\"", "}">>

\* {"state":"idle"}
BodyIdle ==
    <<"{", "\"", "s", "t", "a", "t", "e", "\"", ":", "\"", "i", "d", "l",
      "e", "\"", "}">>

\* {}
BodyEmptyObject ==
    <<"{", "}">>

\* []
BodyList ==
    <<"[", "]">>

\* not json
BodyNotJson ==
    <<"n", "o", "t", " ", "j", "s", "o", "n">>

\* an empty object with a blank-line marker between its braces
BodyBlankObject == <<"{">> \o BlankLine \o <<"}">>

Bodies ==
    {BodyAlerting, BodyIdle, BodyEmptyObject, BodyList, BodyNotJson,
     BodyBlankObject}

\* the bytes of a request: request line and header lines, each ended by
\* CRLF, an empty line, the body
Wire(line, hdrs, body) == Join(<<line>> \o hdrs, CRLF) \o BlankLine \o body

\* every request of the model: a POST with each header block and body, an
\* alert whose content type carries a charset, the other request lines with
\* and without the JSON header and body, and a peer that sends POST and
\* nothing else
Requests ==
    {Wire(LinePost, h, b) : h \in HeaderBlocks, b \in Bodies}
        \cup {Wire(LinePost, <<HdrJsonCharset>>, BodyAlerting)}
        \cup {Wire(l, h, b) : l \in {LineGet, LinePostX},
                              h \in {<<>>, <<HdrJson>>},
                              b \in {BodyAlerting, BodyNotJson}}
        \cup {POST}

\* lengths at which the stream may be cut into chunks, besides delivering
\* all that is pending: inside the request line, and right after it
CutSizes == {4, Len(LinePost) + 2}

----------------------------------------------------------------------------
(* HTTP.py *)

CODES ==
    (100 :> "Continue") @@
    (101 :> "Switching Protocols") @@
    (200 :> "OK") @@
    (201 :> "Created") @@
    (202 :> "Accepted") @@
    (203 :> "Non-Authoritative Information") @@
    (204 :> "No Content") @@
    (205 :> "Reset Content") @@
    (206 :> "Partial Content") @@
    (300 :> "Multiple Choices") @@
    (301 :> "Moved Permanently") @@
    (302 :> "Found") @@
    (303 :> "See Other") @@
    (304 :> "Not Modified") @@
    (305 :> "Use Proxy") @@
    (307 :> "Temporary Redirect") @@
    (400 :> "Bad Request") @@
    (401 :> "Unauthorized") @@
    (402 :> "Payment Required") @@
    (403 :> "Forbidden") @@
    (404 :> "Not Found") @@
    (405 :> "Method Not Allowed") @@
    (406 :> "Not Acceptable") @@
    (407 :> "Proxy Authentication Required") @@
    (408 :> "Request Timeout") @@
    (409 :> "Conflict") @@
    (410 :> "Gone") @@
    (411 :> "Length Required") @@
    (412 :> "Precondition Failed") @@
    (413 :> "Request Entity Too Large") @@
    (414 :> "Request-URI Too Long") @@
    (415 :> "Unsupported Media Type") @@
    (416 :> "Requested Range Not Satisfiable") @@
    (417 :> "Expectation Failed") @@
    (500 :> "Internal Server Error") @@
    (501 :> "Not Implemented") @@
    (502 :> "Bad Gateway") @@
    (503 :> "Service Unavailable") @@
    (504 :> "Gateway Timeout") @@
    (505 :> "HTTP Version Not Supported")

\* recv(1024): the most bytes one recv() returns
RecvMax == 1024

Digits == <<"0", "1", "2", "3", "4", "5", "6", "7", "8", "9">>

\* "{}".format(n) for an integer n >= 0: its decimal digits
RECURSIVE Str(_)
Str(n) == IF n < 10 THEN <<Digits[n + 1]>>
          ELSE Str(n \div 10) \o <<Digits[(n % 10) + 1]>>

\* the status line without the space that follows the reason phrase
StatusLine_NoSpace(code) ==
    <<"H", "T", "T", "P", "/", "1", ".", "1", " ">> \o Str(code)
        \o <<" ", CODES[code]>> \o CRLF \o CRLF

\* "HTTP/1.1 {} {} \r\n\r\n".format(code, CODES[code]); the reason phrase
\* is kept as one element of the text
StatusLine(code) ==
    <<"H", "T", "T", "P", "/", "1", ".", "1", " ">> \o Str(code)
        \o <<" ", CODES[code], " ">> \o CRLF \o CRLF

\* the exception _send(code) raises on connection c, "" if none:
\* ValueError for a code outside CODES, OSError from send() on a closed socket
SendExc(c, code) ==
    IF code \notin DOMAIN CODES THEN "ValueError"
    ELSE IF ~c.open THEN "OSError"
    ELSE ""

\* _send without its closing self._conn.close()
SendConn_NoClose(c, code) ==
    IF code \notin DOMAIN CODES
    THEN [c EXCEPT !.sends = @ + 1, !.code = code]
    ELSE IF ~c.open
    THEN [c EXCEPT !.sends = @ + 1, !.code = code, !.late = TRUE]
    ELSE [c EXCEPT !.sends = @ + 1, !.code = code,
                   !.wire = Append(@, StatusLine(code))]

\* the connection after _send(code): the status line written and the
\* connection closed, unless _send raised.  sends counts the calls of _send
\* for the connection and code is the argument of the latest one, late
\* records a send() attempted after close()
SendConn(c, code) ==
    IF SendExc(c, code) = "ValueError"
    THEN [c EXCEPT !.sends = @ + 1, !.code = code]
    ELSE IF SendExc(c, code) = "OSError"
    THEN [c EXCEPT !.sends = @ + 1, !.code = code, !.late = TRUE]
    ELSE [c EXCEPT !.sends = @ + 1, !.code = code,
                   !.wire = Append(@, StatusLine(code)),
                   !.open = FALSE]

\* self._send(code) as a step of listen(): control goes to next unless
\* _send raised, which ends listen()
Send(code, next) ==
    /\ conn' = SendConn(conn, code)
    /\ openConns' = IF conn'.open THEN openConns ELSE openConns \ {conn.id}
    /\ IF SendExc(conn, code) = ""
       THEN pc' = next /\ exc' = exc
       ELSE pc' = "raised" /\ exc' = SendExc(conn, code)

\* an exception that nothing catches ends listen()
Raise(e) == pc' = "raised" /\ exc' = e

----------------------------------------------------------------------------
(* utils.py *)

\* getSubstringFromList(strings, substring): the 0-based index of the first
\* string that contains substring, -1 if none does
getSubstringFromList(strings, substring) ==
    LET hits == {i \in 1..Len(strings) : Contains(strings[i], substring)}
    IN  IF hits = {} THEN -1
        ELSE (CHOOSE i \in hits : \A j \in hits : i <= j) - 1

----------------------------------------------------------------------------
(* json *)

\* a JSON object as the set of its <<key, value>> pairs
JDict(items) == [type |-> "dict", items |-> items]

JList == [type |-> "list", items |-> {}]

\* the value of a name that is not bound
JNone == [type |-> "none", items |-> {}]

\* json.loads(text) on the texts of the model: ok is FALSE where it raises.
\* Every other text the listener can be handed here is the empty text or a
\* truncation of one of these bodies, none of which is JSON.
JsonLoads(text) ==
    CASE text = BodyAlerting -> [ok |-> TRUE, value |-> JDict({<<"state", "alerting">>})]
      [] text = BodyIdle -> [ok |-> TRUE, value |-> JDict({<<"state", "idle">>})]
      [] text = BodyEmptyObject -> [ok |-> TRUE, value |-> JDict({})]
      [] text = BodyBlankObject -> [ok |-> TRUE, value |-> JDict({})]
      [] text = BodyList -> [ok |-> TRUE, value |-> JList]
      [] OTHER -> [ok |-> FALSE, value |-> JNone]

\* the exception v["state"] raises, "" if none
SubscriptExc(v) ==
    IF v.type # "dict" THEN "TypeError"
    ELSE IF \A kv \in v.items : kv[1] # "state" THEN "KeyError"
    ELSE ""

\* v["state"] where it raises nothing
StateOf(v) == (CHOOSE kv \in v.items : kv[1] = "state")[2]

----------------------------------------------------------------------------
(* utils.py: readSettings *)

\* the values a setting holds: a string, an int, a bool or None
StrV(s) == [t |-> "str", s |-> s, n |-> 0, b |-> FALSE]

IntV(n) == [t |-> "int", s |-> <<>>, n |-> n, b |-> FALSE]

BoolV(b) == [t |-> "bool", s |-> <<>>, n |-> 0, b |-> b]

NoneV == [t |-> "none", s |-> <<>>, n |-> 0, b |-> FALSE]

\* the truth value of v in a condition
Truthy(v) ==
    CASE v.t = "str" -> v.s # <<>>
      [] v.t = "int" -> v.n # 0
      [] v.t = "bool" -> v.b
      [] OTHER -> FALSE

\* settings = {}
EmptyDict == [k \in {} |-> NoneV]

\* d[k] = v
Put(d, k, v) == [x \in DOMAIN d \cup {k} |-> IF x = k THEN v ELSE d[x]]

\* the keys of settings_model

SSID == <<"S", "S", "I", "D">>

KEY == <<"K", "E", "Y">>

MAX_CON == <<"M", "A", "X", "_", "C", "O", "N">>

TIMEOUT == <<"T", "I", "M", "E", "O", "U", "T">>

PORT == <<"P", "O", "R", "T">>

STATIC == <<"S", "T", "A", "T", "I", "C">>

ADDR == <<"A", "D", "D", "R">>

MASK == <<"M", "A", "S", "K">>

GATEWAY == <<"G", "A", "T", "E", "W", "A", "Y">>

ADDR_FAMILY == <<"A", "D", "D", "R", "_", "F", "A", "M", "I", "L", "Y">>

TrueText == <<"T", "R", "U", "E">>

INET == <<"I", "N", "E", "T">>

INET6 == <<"I", "N", "E", "T", "6">>

\* The entries of settings_model.  required_if is <<>> for None; regex is
\* the set of strings the pattern matches in full, {} for None.

Entry_SSID ==
    [key |-> SSID, type |-> "str", required |-> TRUE, required_if |-> <<>>,
     default |-> NoneV, regex |-> {}]

Entry_KEY ==
    [key |-> KEY, type |-> "str", required |-> TRUE, required_if |-> <<>>,
     default |-> NoneV, regex |-> {}]

Entry_MAX_CON ==
    [key |-> MAX_CON, type |-> "int", required |-> FALSE, required_if |-> <<>>,
     default |-> IntV(5), regex |-> {}]

Entry_TIMEOUT ==
    [key |-> TIMEOUT, type |-> "int", required |-> FALSE, required_if |-> <<>>,
     default |-> IntV(10), regex |-> {}]

Entry_PORT ==
    [key |-> PORT, type |-> "int", required |-> FALSE, required_if |-> <<>>,
     default |-> IntV(80), regex |-> {}]

\* "regex": "^(TRUE|FALSE)$"
Entry_STATIC ==
    [key |-> STATIC, type |-> "bool", required |-> FALSE, required_if |-> <<>>,
     default |-> BoolV(FALSE), regex |-> {TrueText, <<"F", "A", "L", "S", "E">>}]

Entry_ADDR ==
    [key |-> ADDR, type |-> "str", required |-> FALSE, required_if |-> STATIC,
     default |-> NoneV, regex |-> {}]

Entry_MASK ==
    [key |-> MASK, type |-> "str", required |-> FALSE, required_if |-> STATIC,
     default |-> NoneV, regex |-> {}]

Entry_GATEWAY ==
    [key |-> GATEWAY, type |-> "str", required |-> FALSE, required_if |-> STATIC,
     default |-> NoneV, regex |-> {}]

\* "regex": "^(INET|INET6)$"
Entry_ADDR_FAMILY ==
    [key |-> ADDR_FAMILY, type |-> "str", required |-> FALSE, required_if |-> STATIC,
     default |-> NoneV, regex |-> {INET, INET6}]

\* a schema that declares STATIC after the keys that refer to it
settings_model_StaticLast ==
    <<Entry_SSID, Entry_KEY, Entry_MAX_CON, Entry_TIMEOUT, Entry_PORT,
      Entry_ADDR, Entry_MASK, Entry_GATEWAY, Entry_ADDR_FAMILY, Entry_STATIC>>

\* settings_model, in the order the validation loop goes through it
settings_model ==
    <<Entry_SSID, Entry_KEY, Entry_MAX_CON, Entry_TIMEOUT, Entry_PORT,
      Entry_STATIC, Entry_ADDR, Entry_MASK, Entry_GATEWAY, Entry_ADDR_FAMILY>>

\* the keys of settings_model
ModelKeys == {settings_model[j].key : j \in 1..Len(settings_model)}

\* i.replace("\n", "").replace("\r", "")
RECURSIVE StripNewlines(_)
StripNewlines(s) ==
    IF s = <<>> THEN <<>>
    ELSE IF Head(s) \in {"\n", "\r"} THEN StripNewlines(Tail(s))
    ELSE <<Head(s)>> \o StripNewlines(Tail(s))

\* the loop over f.readlines(): line = i....split("="); a line whose
\* line[0] is a key of settings_model sets settings[line[0]] = line[1], which
\* raises IndexError when the line has no "="
RECURSIVE ReadLines(_, _)
ReadLines(lines, acc) ==
    IF lines = <<>> THEN [exc |-> "", settings |-> acc]
    ELSE LET line == Split(StripNewlines(Head(lines)), <<"=">>) IN
           IF line[1] \in ModelKeys
           THEN IF Len(line) < 2
                THEN [exc |-> "IndexError", settings |-> acc]
                ELSE ReadLines(Tail(lines), Put(acc, line[1], StrV(line[2])))
           ELSE ReadLines(Tail(lines), acc)

LowerCase ==
    <<"a", "b", "c", "d", "e", "f", "g", "h", "i", "j", "k", "l", "m", "n",
      "o", "p", "q", "r", "s", "t", "u", "v", "w", "x", "y", "z">>

UpperCase ==
    <<"A", "B", "C", "D", "E", "F", "G", "H", "I", "J", "K", "L", "M", "N",
      "O", "P", "Q", "R", "S", "T", "U", "V", "W", "X", "Y", "Z">>

\* an upper() that leaves its argument as it is
Upper_Identity(s) == s

\* s.upper()
Upper(s) ==
    [j \in 1..Len(s) |->
        IF \E c \in 1..26 : LowerCase[c] = s[j]
        THEN UpperCase[CHOOSE c \in 1..26 : LowerCase[c] = s[j]]
        ELSE s[j]]

IsDigits(s) == s # <<>> /\ \A j \in 1..Len(s) : s[j] \in {Digits[d] : d \in 1..10}

\* the value of a string of decimal digits
RECURSIVE DigitsValue(_)
DigitsValue(s) ==
    IF s = <<>> THEN 0
    ELSE 10 * DigitsValue(SubSeq(s, 1, Len(s) - 1))
           + (CHOOSE d \in 0..9 : Digits[d + 1] = s[Len(s)])

\* int(s) for a string without blanks or underscores: an optional sign and
\* decimal digits, ok is FALSE where it raises ValueError
IntOf(s) ==
    IF IsDigits(s) THEN [ok |-> TRUE, n |-> DigitsValue(s)]
    ELSE IF s # <<>> /\ Head(s) = "-" /\ IsDigits(Tail(s))
    THEN [ok |-> TRUE, n |-> 0 - DigitsValue(Tail(s))]
    ELSE IF s # <<>> /\ Head(s) = "+" /\ IsDigits(Tail(s))
    THEN [ok |-> TRUE, n |-> DigitsValue(Tail(s))]
    ELSE [ok |-> FALSE, n |-> 0]

----------------------------------------------------------------------------
(* State *)

\* a local name of listen() before its first assignment
Unbound(v) == [bound |-> FALSE, val |-> v]

Bound(v) == [bound |-> TRUE, val |-> v]

\* no call of alarm() is active
NoFrame == [enabled_for |-> 0, on |-> 0, off |-> 0, elapsed |-> 0, ret |-> ""]

\* no connection has been accepted yet
NoConn ==
    [id |-> 0, open |-> FALSE, wire |-> <<>>, sends |-> 0, code |-> 0,
     late |-> FALSE]

\* the connection accept() returns as the id-th
NewConn(id) == [NoConn EXCEPT !.id = id, !.open = TRUE]

\* The program as HTTP.__init__ is entered.  Pin(2, Pin.OUT) is given no
\* initial value, so the pin keeps whichever level it had.
Init ==
    /\ pc = "init"
    /\ exc = ""
    /\ nConn = 0
    /\ openConns = {}
    /\ conn = NoConn
    /\ pending = <<>>
    /\ request = <<>>
    /\ parsed = FALSE
    /\ headers = <<>>
    /\ content = <<>>
    /\ content_type = Unbound(<<>>)
    /\ data = Unbound(JNone)
    /\ buzzer \in {0, 1}
    /\ frame = NoFrame
    /\ buzzed = <<>>
    /\ file = <<>>
    /\ settings = EmptyDict
    /\ vi = 0

----------------------------------------------------------------------------
(* alarm(buzzer, enabled_for, on, off) *)

\* the call: start = time.ticks_ms(), control returns to ret
CallAlarm(enabled_for, on, off, ret) ==
    /\ frame' = [enabled_for |-> enabled_for, on |-> on, off |-> off,
                 elapsed |-> 0, ret |-> ret]
    /\ pc' = "alarm_test"

\* while time.ticks_diff(time.ticks_ms(), start) < enabled_for
AlarmTest ==
    /\ pc = "alarm_test"
    /\ IF frame.elapsed < frame.enabled_for
       THEN pc' = "alarm_on" /\ frame' = frame
       ELSE pc' = frame.ret /\ frame' = NoFrame
    /\ UNCHANGED <<exc, nConn, openConns, conn, pending, request, parsed,
                   headers, content, content_type, data, buzzer, buzzed>>
    /\ UNCHANGED settingsVars

\* buzzer.on(); time.sleep_ms(on)
AlarmOn ==
    /\ pc = "alarm_on"
    /\ buzzer' = 1
    /\ frame' = [frame EXCEPT !.elapsed = @ + frame.on]
    /\ pc' = "alarm_off"
    /\ UNCHANGED <<exc, nConn, openConns, conn, pending, request, parsed,
                   headers, content, content_type, data, buzzed>>
    /\ UNCHANGED settingsVars

\* the second half of a cycle without buzzer.off()
AlarmOff_NoOff ==
    /\ pc = "alarm_off"
    /\ buzzer' = buzzer
    /\ frame' = [frame EXCEPT !.elapsed = @ + frame.off]
    /\ pc' = "alarm_test"
    /\ UNCHANGED <<exc, nConn, openConns, conn, pending, request, parsed,
                   headers, content, content_type, data, buzzed>>
    /\ UNCHANGED settingsVars

\* buzzer.off(); time.sleep_ms(off)
AlarmOff ==
    /\ pc = "alarm_off"
    /\ buzzer' = 0
    /\ frame' = [frame EXCEPT !.elapsed = @ + frame.off]
    /\ pc' = "alarm_test"
    /\ UNCHANGED <<exc, nConn, openConns, conn, pending, request, parsed,
                   headers, content, content_type, data, buzzed>>
    /\ UNCHANGED settingsVars

----------------------------------------------------------------------------
(* HTTP.__init__ *)

\* self._buzzer = Pin(2, Pin.OUT); alarm(self._buzzer, 2000, 250, 500)
InitBuzzer ==
    /\ pc = "init"
    /\ CallAlarm(2000, 250, 500, "bind")
    /\ UNCHANGED <<exc, nConn, openConns, conn, pending, request, parsed,
                   headers, content, content_type, data, buzzer, buzzed>>
    /\ UNCHANGED settingsVars

\* socket(), bind(), listen(max_con); main() then calls server.listen()
Bind ==
    /\ pc = "bind"
    /\ pc' = "accept"
    /\ UNCHANGED <<exc, nConn, openConns, conn, pending, request, parsed,
                   headers, content, content_type, data, buzzer, frame, buzzed>>
    /\ UNCHANGED settingsVars

----------------------------------------------------------------------------
(* HTTP.listen *)

\* self._conn, addr = self._s.accept(); request = ""
Accept ==
    /\ pc = "accept"
    /\ nConn < MaxConns
    /\ \E req \in Requests : pending' = req
    /\ nConn' = nConn + 1
    /\ conn' = NewConn(nConn + 1)
    /\ openConns' = openConns \cup {nConn + 1}
    /\ request' = <<>>
    /\ parsed' = FALSE
    /\ buzzed' = <<>>
    /\ pc' = "recv"
    /\ UNCHANGED <<exc, headers, content, content_type, data, buzzer, frame>>
    /\ UNCHANGED settingsVars

\* the lengths recv(1024) may return: all that is pending or a cut of it,
\* nothing once the peer has sent everything and shut down
RecvSizes(p) ==
    {n \in CutSizes \cup {Len(p)} : n <= Len(p) /\ n <= RecvMax}

\* the test that ends the read loop
EndOfRequest(chunk) ==
    \/ chunk = <<>>
    \/ chunk = CRLF
    \/ Contains(chunk, CRLF)

\* chunk = self._conn.recv(1024); request += chunk.decode("utf-8");
\* break at the end of the request
Recv ==
    /\ pc = "recv"
    /\ \E n \in RecvSizes(pending) :
          LET chunk == Take(pending, n) IN
            /\ pending' = Drop(pending, n)
            /\ request' = request \o chunk
            /\ pc' = IF EndOfRequest(chunk) THEN "parse" ELSE "recv"
    /\ UNCHANGED <<exc, nConn, openConns, conn, parsed, headers, content,
                   content_type, data, buzzer, frame, buzzed>>
    /\ UNCHANGED settingsVars

\* headers, content = request.split("\r\n\r\n"); headers = headers.split("\r\n")
Parse ==
    /\ pc = "parse"
    /\ LET parts == Split(request, BlankLine) IN
         IF Len(parts) = 2
         THEN /\ headers' = Split(parts[1], CRLF)
              /\ content' = parts[2]
              /\ parsed' = TRUE
              /\ pc' = "method"
              /\ exc' = exc
         ELSE /\ Raise("ValueError")
              /\ UNCHANGED <<headers, content, parsed>>
    /\ UNCHANGED <<nConn, openConns, conn, pending, request, content_type,
                   data, buzzer, frame, buzzed>>
    /\ UNCHANGED settingsVars

\* headers[0][0:4] != "POST"
NotPost(hs) == Take(hs[1], 4) # POST

\* if headers[0][0:4] != "POST": self._send(405); continue
CheckMethod ==
    /\ pc = "method"
    /\ IF NotPost(headers)
       THEN Send(405, "accept")
       ELSE pc' = "find_ct" /\ UNCHANGED <<exc, conn, openConns>>
    /\ UNCHANGED <<nConn, pending, request, parsed, headers, content,
                   content_type, data, buzzer, frame, buzzed>>
    /\ UNCHANGED settingsVars

\* index = getSubstringFromList(headers, "Content-Type: "); with a match
\* content_type = headers[index][14:] (a slice raises no IndexError, so the
\* except branch is never taken), without one self._send(400) and on
FindContentType ==
    /\ pc = "find_ct"
    /\ LET index == getSubstringFromList(headers, ContentTypeKey) IN
         IF index # -1
         THEN /\ content_type' = Bound(Drop(headers[index + 1], 14))
              /\ pc' = "check_ct"
              /\ UNCHANGED <<exc, conn, openConns>>
         ELSE /\ Send(400, "check_ct")
              /\ content_type' = content_type
    /\ UNCHANGED <<nConn, pending, request, parsed, headers, content, data,
                   buzzer, frame, buzzed>>
    /\ UNCHANGED settingsVars

\* the comparison as a test of the first 16 characters only
CheckContentType_Prefix ==
    /\ pc = "check_ct"
    /\ IF ~content_type.bound
       THEN Raise("NameError") /\ UNCHANGED <<conn, openConns>>
       ELSE IF Take(content_type.val, 16) # ApplicationJson
       THEN Send(400, "accept")
       ELSE pc' = "loads" /\ UNCHANGED <<exc, conn, openConns>>
    /\ UNCHANGED <<nConn, pending, request, parsed, headers, content,
                   content_type, data, buzzer, frame, buzzed>>
    /\ UNCHANGED settingsVars

\* if content_type != "application/json": self._send(400); continue
CheckContentType ==
    /\ pc = "check_ct"
    /\ IF ~content_type.bound
       THEN Raise("NameError") /\ UNCHANGED <<conn, openConns>>
       ELSE IF content_type.val # ApplicationJson
       THEN Send(400, "accept")
       ELSE pc' = "loads" /\ UNCHANGED <<exc, conn, openConns>>
    /\ UNCHANGED <<nConn, pending, request, parsed, headers, content,
                   content_type, data, buzzer, frame, buzzed>>
    /\ UNCHANGED settingsVars

\* try: data = json.loads(content); except: self._send(500)
LoadJson ==
    /\ pc = "loads"
    /\ LET r == JsonLoads(content) IN
         IF r.ok
         THEN /\ data' = Bound(r.value)
              /\ pc' = "state"
              /\ UNCHANGED <<exc, conn, openConns>>
         ELSE /\ Send(500, "state")
              /\ data' = data
    /\ UNCHANGED <<nConn, pending, request, parsed, headers, content,
                   content_type, buzzer, frame, buzzed>>
    /\ UNCHANGED settingsVars

\* the state test without its call of alarm()
CheckState_NoAlarm ==
    /\ pc = "state"
    /\ IF ~data.bound
       THEN Raise("NameError")
       ELSE IF SubscriptExc(data.val) # ""
       THEN Raise(SubscriptExc(data.val))
       ELSE pc' = "send204" /\ exc' = exc
    /\ UNCHANGED <<nConn, openConns, conn, pending, request, parsed, headers,
                   content, content_type, data, buzzer, frame, buzzed>>
    /\ UNCHANGED settingsVars

\* if data["state"] == "alerting": alarm(self._buzzer, 5000, 500, 100)
CheckState ==
    /\ pc = "state"
    /\ IF ~data.bound
       THEN Raise("NameError") /\ UNCHANGED <<frame, buzzed>>
       ELSE IF SubscriptExc(data.val) # ""
       THEN Raise(SubscriptExc(data.val)) /\ UNCHANGED <<frame, buzzed>>
       ELSE IF StateOf(data.val) = "alerting"
       THEN /\ CallAlarm(5000, 500, 100, "send204")
            /\ buzzed' = Append(buzzed, <<5000, 500, 100>>)
            /\ exc' = exc
       ELSE pc' = "send204" /\ UNCHANGED <<exc, frame, buzzed>>
    /\ UNCHANGED <<nConn, openConns, conn, pending, request, parsed, headers,
                   content, content_type, data, buzzer>>
    /\ UNCHANGED settingsVars

\* self._send(204), the end of the loop body
Send204 ==
    /\ pc = "send204"
    /\ Send(204, "accept")
    /\ UNCHANGED <<nConn, pending, request, parsed, headers, content,
                   content_type, data, buzzer, frame, buzzed>>
    /\ UNCHANGED settingsVars

Next ==
    \/ InitBuzzer
    \/ AlarmTest
    \/ AlarmOn
    \/ AlarmOff
    \/ Bind
    \/ Accept
    \/ Recv
    \/ Parse
    \/ CheckMethod
    \/ FindContentType
    \/ CheckContentType
    \/ LoadJson
    \/ CheckState
    \/ Send204

Spec == Init /\ [][Next]_vars

----------------------------------------------------------------------------
(* What a connection's request is, and what was done for it *)

\* the method of the request: the leading token of the first request line
Method(hs) ==
    LET sp == Find(hs[1], <<" ">>)
    IN  IF sp = 0 THEN hs[1] ELSE Take(hs[1], sp - 1)

\* some header line contains "Content-Type: "
HasContentType(hs) == getSubstringFromList(hs, ContentTypeKey) # -1

\* the content type of the request: what follows the 14 characters of the
\* key in the first header line that contains it
OwnContentType(hs) ==
    Drop(hs[getSubstringFromList(hs, ContentTypeKey) + 1], 14)

\* the request is a POST of application/json
JsonPost(hs) ==
    /\ Method(hs) = POST
    /\ HasContentType(hs)
    /\ OwnContentType(hs) = ApplicationJson

\* the body is a JSON object whose state is "alerting"
Alerting(body) ==
    /\ JsonLoads(body).ok
    /\ SubscriptExc(JsonLoads(body).value) = ""
    /\ StateOf(JsonLoads(body).value) = "alerting"

\* the one call listen() makes of alarm()
AlertPattern == <<5000, 500, 100>>

\* alarm() is running
InAlarm == pc \in {"alarm_test", "alarm_on", "alarm_off"}

\* listen() is back at accept() after handling a connection
Served == pc = "accept" /\ nConn > 0

\* what listen() has sent and sounded for the connection in hand
Outcome == [wire |-> conn.wire, buzzed |-> buzzed]

\* the outcome of the loop body of listen() for a request served first,
\* when content_type and data are bound by nothing but this request
FirstOutcome(hs, body) ==
    IF NotPost(hs)
    THEN [wire |-> <<StatusLine(405)>>, buzzed |-> <<>>]
    ELSE IF ~HasContentType(hs)
    THEN [wire |-> <<StatusLine(400)>>, buzzed |-> <<>>]
    ELSE IF OwnContentType(hs) # ApplicationJson
    THEN [wire |-> <<StatusLine(400)>>, buzzed |-> <<>>]
    ELSE IF ~JsonLoads(body).ok
    THEN [wire |-> <<StatusLine(500)>>, buzzed |-> <<>>]
    ELSE IF SubscriptExc(JsonLoads(body).value) # ""
    THEN [wire |-> <<>>, buzzed |-> <<>>]
    ELSE IF StateOf(JsonLoads(body).value) = "alerting"
    THEN [wire |-> <<StatusLine(204)>>, buzzed |-> <<AlertPattern>>]
    ELSE [wire |-> <<StatusLine(204)>>, buzzed |-> <<>>]

----------------------------------------------------------------------------
(* Claims *)

\* C1: while a connection is handled, up to the next accept(), _send is
\* called at most once and no write is attempted on the connection after it
\* was closed; when the next accept() is reached _send was called exactly
\* once and exactly one status line was written.
C1_OneSendPerConnection ==
    /\ conn.sends <= 1
    /\ ~conn.late
    /\ Served => conn.sends = 1 /\ Len(conn.wire) = 1

\* C2: a POST none of whose header lines contains "Content-Type: " gets 400
\* and nothing more: control never reaches the content-type comparison, the
\* JSON parse or the buzzer, and the listener reaches the next accept().
C2_MissingContentTypeStops ==
    (parsed /\ Method(headers) = POST /\ ~HasContentType(headers)) =>
        /\ pc \in {"method", "find_ct", "accept"}
        /\ buzzed = <<>>
        /\ pc = "accept" => conn.wire = <<StatusLine(400)>>

\* C3: a POST of application/json whose body is not JSON gets 500 as its
\* only status: control never reaches the 'state' lookup or the buzzer, and
\* the listener reaches the next accept().
C3_BadJsonIsTerminal500 ==
    (parsed /\ JsonPost(headers) /\ ~JsonLoads(content).ok) =>
        /\ pc \in {"method", "find_ct", "check_ct", "loads", "accept"}
        /\ buzzed = <<>>
        /\ pc = "accept" => conn.wire = <<StatusLine(500)>>

\* C4: alarm() is called while a connection is handled only if that
\* connection's own request starts with POST, has content type
\* application/json and a body that parses to state "alerting".
C4_BuzzerOnlyForOwnAlert ==
    buzzed # <<>> =>
        /\ parsed
        /\ ~NotPost(headers)
        /\ HasContentType(headers)
        /\ OwnContentType(headers) = ApplicationJson
        /\ Alerting(content)

\* C5: for a POST of application/json with body {"state":"alerting"} the
\* buzzer is called exactly once, with (5000, 500, 100); while the pattern
\* runs nothing has been sent and the connection is open; 204 is the one
\* status sent, after alarm() has returned.
C5_AlertThen204 ==
    (parsed /\ JsonPost(headers) /\ content = BodyAlerting) =>
        /\ pc # "raised"
        /\ InAlarm =>
              /\ <<frame.enabled_for, frame.on, frame.off>> = AlertPattern
              /\ buzzed = <<AlertPattern>>
              /\ conn.open /\ conn.wire = <<>> /\ conn.sends = 0
        /\ pc = "send204" =>
              /\ buzzed = <<AlertPattern>> /\ frame = NoFrame
              /\ conn.open /\ conn.wire = <<>>
        /\ pc = "accept" =>
              /\ buzzed = <<AlertPattern>> /\ frame = NoFrame
              /\ ~conn.open /\ conn.wire = <<StatusLine(204)>>

\* C5 witness: such a request has been answered 204 after one alert pattern
C5_Witness ==
    /\ parsed /\ JsonPost(headers) /\ content = BodyAlerting
    /\ pc = "accept"
    /\ buzzed = <<AlertPattern>>
    /\ conn.wire = <<StatusLine(204)>>

\* C6: a request whose method is not exactly POST gets 405 and nothing
\* more: no Content-Type lookup, no JSON parse, no buzzer.
C6_NonPostIs405 ==
    (parsed /\ Method(headers) # POST) =>
        /\ pc \in {"method", "accept"}
        /\ buzzed = <<>>
        /\ pc = "accept" => conn.wire = <<StatusLine(405)>>

\* C7: a POST of application/json whose body is a JSON object without a
\* 'state' field, or with a state other than "alerting", raises no error,
\* does not sound the buzzer and is answered 204.
C7_MissingStateIsNormal ==
    (/\ parsed /\ JsonPost(headers)
     /\ JsonLoads(content).ok
     /\ JsonLoads(content).value.type = "dict"
     /\ ~Alerting(content)) =>
        /\ pc # "raised"
        /\ buzzed = <<>>
        /\ pc = "accept" => conn.wire = <<StatusLine(204)>>

\* C8: no request makes listen() exit: whenever the read loop has ended,
\* handling goes on to the next accept(), by which time a single status has
\* been sent and the connection closed.
C8_ListenNeverExits ==
    /\ pc # "raised"
    /\ Served => Len(conn.wire) = 1 /\ ~conn.open

\* C9: at most one connection is ever open, and at every accept() the
\* connection accepted before it has been read, split, answered and closed.
C9_OneConnectionAtATime ==
    /\ Cardinality(openConns) <= 1
    /\ openConns \subseteq {conn.id}
    /\ pc = "accept" => openConns = {}
    /\ Served => parsed /\ conn.sends >= 1 /\ ~conn.open

\* C9 witness: a second connection is being read after the first was served
C9_Witness ==
    /\ pc = "recv"
    /\ nConn = 2
    /\ openConns = {2}

\* C10: what listen() sends and sounds for a connection depends on that
\* connection's request alone: when handling has ended, by the next accept()
\* or by an exception, the outcome is the one the same request has when it
\* is the first one served, whatever requests came before.
C10_OutcomeOfRequestAlone ==
    (parsed /\ pc \in {"accept", "raised"}) =>
        Outcome = FirstOutcome(headers, content)

\* C11: a POST whose first header line containing "Content-Type: " gives a
\* content type other than exactly application/json is answered 400 once:
\* the body is not parsed, the buzzer is not sounded, and the listener
\* reaches the next accept().
C11_WrongContentTypeIs400 ==
    (/\ parsed /\ Method(headers) = POST /\ HasContentType(headers)
     /\ OwnContentType(headers) # ApplicationJson) =>
        /\ pc \in {"method", "find_ct", "check_ct", "accept"}
        /\ buzzed = <<>>
        /\ conn.sends <= 1
        /\ pc = "accept" =>
              /\ conn.wire = <<StatusLine(400)>> /\ conn.sends = 1
              /\ ~conn.open

\* C11 witness: application/json; charset=utf-8 has been answered 400
C11_Witness ==
    /\ parsed /\ Method(headers) = POST
    /\ <<HdrJsonCharset>> = Tail(headers)
    /\ pc = "accept"
    /\ conn.wire = <<StatusLine(400)>>

----------------------------------------------------------------------------
(* _send(code) on its own: every code of the table, and some outside it *)

\* codes that CODES does not hold
BadCodes == {0, 99, 207, 306, 418, 506}

\* a connection has just been accepted, nothing has been sent on it
SendInit ==
    /\ pc = "send"
    /\ exc = ""
    /\ nConn \in 1..MaxConns
    /\ conn = NewConn(nConn)
    /\ openConns = {nConn}
    /\ pending = <<>>
    /\ request = <<>>
    /\ parsed = FALSE
    /\ headers = <<>>
    /\ content = <<>>
    /\ content_type = Unbound(<<>>)
    /\ data = Unbound(JNone)
    /\ buzzer = 0
    /\ frame = NoFrame
    /\ buzzed = <<>>
    /\ file = <<>>
    /\ settings = EmptyDict
    /\ vi = 0

\* self._send(code); a caller that goes on may call it again
SendCall ==
    /\ pc = "send"
    /\ \E code \in DOMAIN CODES \cup BadCodes : Send(code, "send")
    /\ UNCHANGED <<nConn, pending, request, parsed, headers, content,
                   content_type, data, buzzer, frame, buzzed>>
    /\ UNCHANGED settingsVars

SendNext == SendCall

SendSpec == SendInit /\ [][SendNext]_vars

\* the value of a decimal digit
DigitValue(ch) == CHOOSE d \in 0..9 : Digits[d + 1] = ch

\* C12: _send(code) on an open connection, for a code of CODES, writes the
\* one line "HTTP/1.1 <code> <reason phrase> CRLF CRLF" (the code in decimal,
\* the phrase of the table, a space after it, nothing else) and closes the
\* connection; 204 gives "204 No Content".  For a code outside CODES it
\* raises ValueError, writes nothing and leaves the connection open.
C12_StatusLineAndClose ==
    conn.sends = 1 =>
        IF conn.code \in DOMAIN CODES
        THEN /\ pc = "send" /\ exc = ""
             /\ ~conn.open /\ openConns = {}
             /\ Len(conn.wire) = 1
             /\ LET line == conn.wire[1] IN
                  /\ Len(line) = 19
                  /\ SubSeq(line, 1, 9) =
                        <<"H", "T", "T", "P", "/", "1", ".", "1", " ">>
                  /\ \A i \in 10..12 : line[i] \in {Digits[d] : d \in 1..10}
                  /\ 100 * DigitValue(line[10]) + 10 * DigitValue(line[11])
                        + DigitValue(line[12]) = conn.code
                  /\ line[13] = " "
                  /\ line[14] = CODES[conn.code]
                  /\ SubSeq(line, 15, 19) = <<" ", "\r", "\n", "\r", "\n">>
                  /\ conn.code = 204 =>
                        SubSeq(line, 10, 14) =
                            <<"2", "0", "4", " ", "No Content">>
        ELSE /\ pc = "raised" /\ exc = "ValueError"
             /\ conn.wire = <<>>
             /\ conn.open /\ openConns = {conn.id}

\* C12 witness: _send(204) has written its line and closed the connection
C12_Witness ==
    /\ conn.sends = 1 /\ conn.code = 204
    /\ Len(conn.wire) = 1 /\ ~conn.open

----------------------------------------------------------------------------
(* readSettings(): the settings.txt files of the model *)

\* the line "key=value" as readlines() yields it
Line(key, value) == key \o <<"=">> \o value \o <<"\n">>

ValNet == <<"n", "e", "t">>

ValPw == <<"p", "w">>

ValKeyEq == <<"a", "=", "b">>

Val8080 == <<"8", "0", "8", "0">>

ValAbc == <<"a", "b", "c">>

ValFalse == <<"F", "A", "L", "S", "E">>

ValTrueLower == <<"t", "r", "u", "e">>

ValYes == <<"y", "e", "s">>

ValAddr == <<"1", "0", ".", "0", ".", "0", ".", "2">>

ValMask == <<"2", "5", "5", ".", "0", ".", "0", ".", "0">>

ValGateway == <<"1", "0", ".", "0", ".", "0", ".", "1">>

ValInet4 == <<"I", "N", "E", "T", "4">>

\* a line that ends in CR LF
LineSsidCrLf == <<"S", "S", "I", "D", "=", "n", "e", "t", "\r", "\n">>

\* a key of the schema on a line without "="
LinePortBare == <<"P", "O", "R", "T", "\n">>

\* lines whose key is not in the schema
LineUnknown == <<"F", "O", "O", "=", "a", "=", "b", "\n">>

LineComment == <<"#", " ", "n", "o", "t", "e", "\n">>

LineEmpty == <<"\n">>

\* The files: every key left out or given, in schema order, with the
\* STATIC line before the address lines or at the end of the file.
Files ==
    {ssid \o key \o port \o (IF last THEN <<>> ELSE static) \o addr
        \o mask \o gw \o fam \o (IF last THEN static ELSE <<>>) \o other :
        ssid \in {<<>>, <<LineSsidCrLf>>},
        key \in {<<Line(KEY, ValPw)>>, <<Line(KEY, ValKeyEq)>>},
        port \in {<<>>, <<Line(PORT, Val8080)>>, <<Line(PORT, ValAbc)>>,
                  <<LinePortBare>>},
        static \in {<<>>} \cup {<<Line(STATIC, v)>> :
                        v \in {TrueText, ValFalse, ValTrueLower, ValYes}},
        addr \in {<<>>, <<Line(ADDR, ValAddr)>>},
        mask \in {<<>>, <<Line(MASK, ValMask)>>},
        gw \in {<<>>, <<Line(GATEWAY, ValGateway)>>},
        fam \in {<<>>, <<Line(ADDR_FAMILY, INET6)>>,
                 <<Line(ADDR_FAMILY, ValInet4)>>},
        other \in {<<>>, <<LineUnknown>>, <<LineComment>>, <<LineEmpty>>},
        last \in BOOLEAN}

\* readSettings() is entered with settings.txt present: settings = {}
SettingsInit ==
    /\ pc = "read"
    /\ exc = ""
    /\ file \in Files
    /\ settings = EmptyDict
    /\ vi = 0
    /\ nConn = 0
    /\ openConns = {}
    /\ conn = NoConn
    /\ pending = <<>>
    /\ request = <<>>
    /\ parsed = FALSE
    /\ headers = <<>>
    /\ content = <<>>
    /\ content_type = Unbound(<<>>)
    /\ data = Unbound(JNone)
    /\ buzzer = 0
    /\ frame = NoFrame
    /\ buzzed = <<>>

\* with open("settings.txt", "r") as f: for i in f.readlines(): ...
ReadFile ==
    /\ pc = "read"
    /\ LET r == ReadLines(file, EmptyDict) IN
         /\ settings' = r.settings
         /\ IF r.exc # ""
            THEN Raise(r.exc) /\ vi' = vi
            ELSE pc' = "validate" /\ vi' = 1 /\ exc' = exc
    /\ UNCHANGED file
    /\ UNCHANGED httpVars

\* fatal(): the message is logged and sys.exit(1) ends the program
Fatal == pc' = "fatal" /\ exc' = "SystemExit" /\ UNCHANGED <<settings, vi>>

\* settings[i] = v, and on to the next key of settings_model
Store(i, v) ==
    /\ settings' = Put(settings, i, v)
    /\ vi' = vi + 1
    /\ UNCHANGED <<pc, exc>>

\* one pass of "for i in settings_model", for the vi-th key
Validate ==
    /\ pc = "validate"
    /\ vi \in 1..Len(settings_model)
    /\ LET m == settings_model[vi]
           i == m.key
       IN  IF i \in DOMAIN settings
           THEN IF m.regex # {} /\ m.type = "str" /\ settings[i].s \notin m.regex
                THEN Fatal
                ELSE IF m.type = "bool"
                THEN Store(i, BoolV(Upper(settings[i].s) = TrueText))
                ELSE IF m.type = "int"
                THEN IF IntOf(settings[i].s).ok
                     THEN Store(i, IntV(IntOf(settings[i].s).n))
                     ELSE Fatal
                ELSE Store(i, StrV(settings[i].s))
           ELSE IF m.required
                THEN Fatal
                ELSE IF m.required_if # <<>>
                THEN IF m.required_if \notin DOMAIN settings
                     THEN Raise("KeyError") /\ UNCHANGED <<settings, vi>>
                     ELSE IF Truthy(settings[m.required_if])
                     THEN Fatal
                     ELSE Store(i, m.default)
                ELSE Store(i, m.default)
    /\ UNCHANGED file
    /\ UNCHANGED httpVars

\* return settings
Return ==
    /\ pc = "validate"
    /\ vi = Len(settings_model) + 1
    /\ pc' = "returned"
    /\ UNCHANGED <<exc, file, settings, vi>>
    /\ UNCHANGED httpVars

SettingsNext == ReadFile \/ Validate \/ Return

SettingsSpec == SettingsInit /\ [][SettingsNext]_vars

----------------------------------------------------------------------------
(* readSettings(): the claims *)

\* the text of s before its first "=", all of s if it has none
RECURSIVE BeforeEq(_)
BeforeEq(s) ==
    IF s = <<>> \/ Head(s) = "=" THEN <<>>
    ELSE <<Head(s)>> \o BeforeEq(Tail(s))

\* the text of s after its first "=", nothing if it has none
RECURSIVE AfterEq(_)
AfterEq(s) ==
    IF s = <<>> THEN <<>>
    ELSE IF Head(s) = "=" THEN Tail(s)
    ELSE AfterEq(Tail(s))

\* the key of a line: the text before its first "=", newlines removed
KeyPart(line) == StripNewlines(BeforeEq(line))

\* the value of a line: all the text after its first "=", newlines removed
ValuePart(line) == StripNewlines(AfterEq(line))

\* the file has a line for key k
Supplied(k) == \E j \in 1..Len(file) : KeyPart(file[j]) = k

\* the value the file gives for key k
Raw(k) ==
    LET j == CHOOSE x \in 1..Len(file) :
                 /\ KeyPart(file[x]) = k
                 /\ \A y \in 1..Len(file) : KeyPart(file[y]) = k => y <= x
    IN  ValuePart(file[j])

\* the place of key k in the validation order
KeyIndex(k) == CHOOSE j \in 1..Len(settings_model) : settings_model[j].key = k

\* validation has dealt with key k and gone on
Past(k) ==
    \/ pc = "returned"
    \/ pc \in {"validate", "fatal", "raised"} /\ vi > KeyIndex(k)

\* the keys that are required if STATIC is set
StaticKeys == {ADDR, MASK, GATEWAY, ADDR_FAMILY}

\* C13: for each of ADDR, MASK, GATEWAY, ADDR_FAMILY: the key is reached
\* with STATIC already validated and coerced to a boolean; if the key is
\* omitted and STATIC was supplied as TRUE, validation ends fatally at the
\* key and never returns; if the key is omitted and STATIC is FALSE or
\* omitted, validation does not fail at the key and the key holds None.
C13_RequiredIfStatic ==
    LET staticTrue == Supplied(STATIC) /\ Raw(STATIC) = TrueText
        staticFalse == ~Supplied(STATIC) \/ Raw(STATIC) = ValFalse
    IN  \A k \in StaticKeys :
          /\ (pc # "read" /\ vi = KeyIndex(k)) =>
                 /\ STATIC \in DOMAIN settings
                 /\ settings[STATIC].t = "bool"
          /\ (~Supplied(k) /\ staticTrue) =>
                 /\ ~Past(k)
                 /\ (vi = KeyIndex(k) /\ pc # "validate") => pc = "fatal"
          /\ (~Supplied(k) /\ staticFalse) =>
                 /\ ~(vi = KeyIndex(k) /\ pc \in {"fatal", "raised"})
                 /\ Past(k) => (k \in DOMAIN settings /\ settings[k] = NoneV)

\* C13 witness: STATIC=TRUE on the last line of the file, ADDR given, MASK
\* omitted, and validation has ended fatally at MASK.
C13_Witness ==
    /\ pc = "fatal"
    /\ vi = KeyIndex(MASK)
    /\ ~Supplied(MASK) /\ Supplied(ADDR)
    /\ KeyPart(file[Len(file)]) = STATIC
    /\ Raw(STATIC) = TrueText

\* s and u are the same text but for the case of their letters
EqualsIgnoringCase(s, u) ==
    /\ Len(s) = Len(u)
    /\ \A j \in 1..Len(s) :
          \/ s[j] = u[j]
          \/ \E c \in 1..26 : {s[j], u[j]} = {LowerCase[c], UpperCase[c]}

\* the value of type type that the text raw stands for
Coerced(type, raw) ==
    CASE type = "bool" -> BoolV(EqualsIgnoringCase(raw, TrueText))
      [] type = "int" -> IntV(IntOf(raw).n)
      [] OTHER -> StrV(raw)

\* C14: when readSettings() returns, the mapping has exactly the keys of
\* the schema; a key the file supplies holds the supplied value coerced to
\* the type of the schema, and an omitted key holds the default of the
\* schema: MAX_CON 5, TIMEOUT 10, PORT 80, STATIC false.
C14_ReturnedMapping ==
    pc = "returned" =>
        /\ DOMAIN settings = ModelKeys
        /\ \A j \in 1..Len(settings_model) :
              LET m == settings_model[j] IN
                settings[m.key] = IF Supplied(m.key)
                                  THEN Coerced(m.type, Raw(m.key))
                                  ELSE m.default
        /\ ~Supplied(MAX_CON) => settings[MAX_CON] = IntV(5)
        /\ ~Supplied(TIMEOUT) => settings[TIMEOUT] = IntV(10)
        /\ ~Supplied(PORT) => settings[PORT] = IntV(80)
        /\ ~Supplied(STATIC) => settings[STATIC] = BoolV(FALSE)

\* C15: a supplied STATIC whose value does not match ^(TRUE|FALSE)$ ends
\* validation fatally at STATIC; it is never coerced.
C15_StaticMustMatchPattern ==
    (Supplied(STATIC) /\ Raw(STATIC) \notin Entry_STATIC.regex) =>
        /\ ~Past(STATIC)
        /\ (vi = KeyIndex(STATIC) /\ pc # "validate") => pc = "fatal"

\* C16: once the file is read, each key of the schema that has a line
\* holds all the text after the first "=" of its line, the other keys of
\* the schema hold nothing yet, no other key is held, and reading fails
\* only on a line of a schema key that has no "=".
C16_SplitOnFirstEquals ==
    /\ (pc = "validate" /\ vi = 1) =>
          /\ DOMAIN settings = {k \in ModelKeys : Supplied(k)}
          /\ \A k \in DOMAIN settings : settings[k] = StrV(Raw(k))
    /\ (pc = "raised" /\ vi = 0) =>
          \E j \in 1..Len(file) :
              /\ KeyPart(file[j]) \in ModelKeys
              /\ ~Contains(file[j], <<"=">>)

\* C17: the coercion of a supplied value of a key of type bool stores true
\* if the text is TRUE but for the case of its letters and false for every
\* other text, and goes on to the next key without an error.
C17_BoolCoercion ==
    [][(/\ pc = "validate"
        /\ vi \in 1..Len(settings_model)
        /\ settings_model[vi].type = "bool"
        /\ settings_model[vi].key \in DOMAIN settings) =>
            LET i == settings_model[vi].key IN
              /\ pc' = "validate" /\ exc' = "" /\ vi' = vi + 1
              /\ settings'[i] =
                     BoolV(EqualsIgnoringCase(settings[i].s, TrueText))
              /\ \A k \in DOMAIN settings \ {i} : settings'[k] = settings[k]
      ]_vars

\* C17 witness: STATIC=true was coerced, to true.
C17_Witness ==
    /\ pc = "validate"
    /\ vi = KeyIndex(STATIC) + 1
    /\ Supplied(STATIC) /\ Raw(STATIC) = ValTrueLower
    /\ settings[STATIC] = BoolV(TRUE)

----------------------------------------------------------------------------
(* HTTP.listen(): reading and splitting the request *)

\* the chunk a step of the read loop has added to request
LastChunk == SubSeq(request', Len(request) + 1, Len(request'))

\* C18: a pass of the read loop ends reading exactly when its chunk is
\* empty, is CRLF alone, or contains the blank-line marker CRLF CRLF; a
\* chunk with single line terminators only does not end reading.
C18_ReadStopsAtBlankLine ==
    [][pc = "recv" =>
          /\ pc' \in {"recv", "parse"}
          /\ pc' = "parse" <=> \/ LastChunk = <<>>
                               \/ LastChunk = CRLF
                               \/ Contains(LastChunk, BlankLine)
      ]_vars

\* C19: a request that holds a blank-line marker is split at the first
\* one without error: the header block is all the text before it, the body
\* all the text after it, further markers included.
C19_SplitAtFirstBlankLine ==
    [][(pc = "parse" /\ Contains(request, BlankLine)) =>
          LET first == Find(request, BlankLine) IN
            /\ pc' = "method"
            /\ Join(headers', CRLF) = SubSeq(request, 1, first - 1)
            /\ content' = Drop(request, first + Len(BlankLine) - 1)
      ]_vars

----------------------------------------------------------------------------
(* alarm(): the program, and calls of alarm() on their own *)

\* the arguments (enabled_for, on, off) of the calls made on their own
AlarmArgs ==
    {<<2000, 250, 500>>, <<5000, 500, 100>>}
        \cup ({-3, 0, 1, 5} \X {0, 1, 2} \X {0, 1, 3})

\* alarm(buzzer, enabled_for, on, off) is entered, the pin at either level
AlarmCall ==
    /\ pc = "alarm_test"
    /\ exc = ""
    /\ \E a \in AlarmArgs :
          frame = [enabled_for |-> a[1], on |-> a[2], off |-> a[3],
                   elapsed |-> 0, ret |-> "returned"]
    /\ buzzer \in {0, 1}
    /\ nConn = 0
    /\ openConns = {}
    /\ conn = NoConn
    /\ pending = <<>>
    /\ request = <<>>
    /\ parsed = FALSE
    /\ headers = <<>>
    /\ content = <<>>
    /\ content_type = Unbound(<<>>)
    /\ data = Unbound(JNone)
    /\ buzzed = <<>>
    /\ file = <<>>
    /\ settings = EmptyDict
    /\ vi = 0

AlarmInit == Init \/ AlarmCall

AlarmSpec == AlarmInit /\ [][Next]_vars

\* listen() waits in accept(), reads, or is handling what it read, which
\* is where it sends a status
ListenStates ==
    {"accept", "recv", "parse", "method", "find_ct", "check_ct", "loads",
     "state", "send204"}

\* C20: in alarm() each on() is followed by off() and only then is the
\* elapsed time tested again, the test itself leaves the pin alone, and
\* with enabled_for <= 0 the first test returns, so the pin is never
\* switched on; the buzzer is off whenever listen() waits in accept(),
\* reads a request or sends a status.
C20_BuzzerOffAfterAlarm ==
    /\ [](pc \in ListenStates => buzzer = 0)
    /\ [][/\ pc = "alarm_on" => (buzzer' = 1 /\ pc' = "alarm_off")
          /\ pc = "alarm_off" => (buzzer' = 0 /\ pc' = "alarm_test")
          /\ pc = "alarm_test" =>
                (buzzer' = buzzer /\ pc' \in {"alarm_on", frame.ret})
          /\ (pc = "alarm_test" /\ frame.enabled_for <= 0) => pc' = frame.ret
         ]_vars

\* C20 witness: the alert pattern has sounded, listen() is back in accept()
\* and the buzzer is off.
C20_Witness ==
    /\ pc = "accept"
    /\ nConn > 0
    /\ buzzed = <<AlertPattern>>
    /\ buzzer = 0

====
